---------------------------- MODULE Spec2Model ----------------------------
(***************************************************************************)
(* AwesomeTTS service providers: the Wikimedia Commons provider (Wiki),    *)
(* the Oxford Dictionary provider (Oxford) and their run() pipelines.      *)
(*                                                                         *)
(* Python strings are TLA+ strings; they are taken apart with Head, Tail,  *)
(* SubSeq and Len and put together with \o, so that formatting, slicing    *)
(* and normalisation are computed character by character.                  *)
(***************************************************************************)
EXTENDS Integers, Sequences, FiniteSets, TLC

(***************************************************************************)
(* Bounds of the model                                                     *)
(***************************************************************************)

\* invocations of run() made in one behaviour, over all providers
MaxRuns == 2

(***************************************************************************)
(* Program constants                                                       *)
(***************************************************************************)

\* wiki.py:113   if len(text) > 100
TextLimit == 100
\* wiki.py:125   require=dict(mime='text/html', size=1024)
WikiSearchMinSize == 1024
\* wiki.py:172   require=dict(size_in=1024)
WikiTranscodeMinSize == 1024
\* oxford.py:134 require=dict(mime='audio/mpeg', size=1024)
OxfordAudioMinSize == 1024
\* wiki.py:92    self.normalize(value)[0:2]
VoiceSliceEnd == 2

(***************************************************************************)
(* Python values                                                           *)
(***************************************************************************)

\* Python's None (a cached "nothing found", an unset requirement)
None == "<None>"
\* a local name that has not been assigned yet
Unbound == "<unbound>"

(***************************************************************************)
(* String helpers (Python str methods)                                     *)
(***************************************************************************)

UpperChars == "ABCDEFGHIJKLMNOPQRSTUVWXYZ"
LowerChars == "abcdefghijklmnopqrstuvwxyz"

\* the one-character string at 1-based position j
CharAt(s, j) == SubSeq(s, j, j)

\* str.lower() of one character
LowerChar(c) ==
    IF \E j \in 1..Len(UpperChars) : CharAt(UpperChars, j) = c
    THEN CharAt(LowerChars, CHOOSE j \in 1..Len(UpperChars) : CharAt(UpperChars, j) = c)
    ELSE c

IsSpaceChar(c) == c \in {" ", "\t", "\n", "\r"}

RECURSIVE StrReplaceChar(_, _, _)
\* s.replace(old, new) for a one-character old
StrReplaceChar(s, old, new) ==
    IF s = "" THEN ""
    ELSE (IF Head(s) = old THEN new ELSE Head(s)) \o StrReplaceChar(Tail(s), old, new)

RECURSIVE StrCount(_, _)
\* s.count(c) for a one-character c
StrCount(s, c) ==
    IF s = "" THEN 0
    ELSE (IF Head(s) = c THEN 1 ELSE 0) + StrCount(Tail(s), c)

\* s[0:n]
Slice0(s, n) == SubSeq(s, 1, IF Len(s) < n THEN Len(s) ELSE n)

RECURSIVE normalize(_)
\* Service.normalize: case- and whitespace-insensitive form of a string
normalize(s) ==
    IF s = "" THEN ""
    ELSE (IF IsSpaceChar(Head(s)) THEN "" ELSE LowerChar(Head(s))) \o normalize(Tail(s))


(***************************************************************************)
(* Wikimedia Commons provider: tables and option transform                 *)
(***************************************************************************)

\* LOOKUP: language code -> (display name, search prefixes, commonest first)
LOOKUP ==
    [code \in {"de", "es", "en", "fr", "it", "pt", "zh"} |->
        CASE code = "de" -> [name |-> "German", prefixes |-> <<"de">>]
          [] code = "es" -> [name |-> "Spanish",
                             prefixes |-> <<"es", "es-am-lat", "es-chile",
                                            "es-us", "es-mx", "es-cl">>]
          [] code = "en" -> [name |-> "English",
                             prefixes |-> <<"en", "en-us", "en-uk", "en-gb", "en-au">>]
          [] code = "fr" -> [name |-> "French", prefixes |-> <<"fr">>]
          [] code = "it" -> [name |-> "Italian", prefixes |-> <<"it">>]
          [] code = "pt" -> [name |-> "Portuguese",
                             prefixes |-> <<"pt", "pt-br", "pt-pt">>]
          [] code = "zh" -> [name |-> "Chinese", prefixes |-> <<"zh">>]]

\* Wiki.options: voice_lookup = {self.normalize(code): code for code in LOOKUP}
WikiVoiceLookup ==
    [n \in {normalize(code) : code \in DOMAIN LOOKUP} |->
        CHOOSE code \in DOMAIN LOOKUP : normalize(code) = n]

\* Wiki.options.transform_voice
WikiTransformVoice(value) ==
    LET normalized == Slice0(normalize(value), VoiceSliceEnd)
    IN  IF normalized \in DOMAIN WikiVoiceLookup
        THEN WikiVoiceLookup[normalized]
        ELSE value

\* Wiki.options: the (code, label) pairs offered for the voice option
WikiVoiceValues ==
    {<<code, LOOKUP[code].name \o " (" \o code \o ")">> : code \in DOMAIN LOOKUP}

(***************************************************************************)
(* Oxford Dictionary provider: option transform, text modification, URL    *)
(***************************************************************************)

OxfordAliasesUS == {"American", "American English", "English, American", "US"}

OxfordAliasesGB == {"British", "British English", "English, British",
                    "English", "en", "en-EU", "en-UK", "EU", "GB", "UK"}

\* a code for British English that is itself an alias of American English
OxfordCodeGBAlias == "US"

\* the canonical code the alias table gives an alias for British English
OxfordCodeGB == "en-GB"

\* Oxford.options: voice_lookup, normalized alias -> official code
OxfordVoiceLookup ==
    [n \in {normalize(a) : a \in OxfordAliasesUS \cup OxfordAliasesGB} |->
        IF n \in {normalize(a) : a \in OxfordAliasesGB} THEN OxfordCodeGB ELSE "en-US"]

\* Oxford.options.transform_voice
OxfordTransformVoice(value) ==
    LET normalized == normalize(value)
    IN  IF normalized \in DOMAIN OxfordVoiceLookup
        THEN OxfordVoiceLookup[normalized]
        ELSE value

RECURSIVE modify(_)
\* Oxford.modify: RE_WHITESPACE.sub('-', text), each run of [\0\s]+ becomes one dash
modify(text) ==
    IF text = "" THEN ""
    ELSE IF IsSpaceChar(Head(text))
         THEN IF Len(text) > 1 /\ IsSpaceChar(CharAt(text, 2))
              THEN modify(Tail(text))
              ELSE "-" \o modify(Tail(text))
         ELSE Head(text) \o modify(Tail(text))

\* urllib2.quote of one character: letters, digits and _.-/ are kept
QuoteChar(c) ==
    CASE c = " "  -> "%20"
      [] c = "\"" -> "%22"
      [] c = ","  -> "%2C"
      [] c = ":"  -> "%3A"
      [] OTHER    -> c

RECURSIVE quote(_)
quote(s) == IF s = "" THEN "" ELSE QuoteChar(Head(s)) \o quote(Tail(s))

\* Oxford.run: dict_url
DictUrl(text, voice) ==
    "http://www.oxforddictionaries.com/definition/"
        \o (IF voice = "en-US" THEN "american_english" ELSE "english")
        \o "/" \o quote(text)

(***************************************************************************)
(* Wiki.run: the search queries                                            *)
(***************************************************************************)

\* 'intitle:.ogg prefix:"file:%s-%s"' % (prefix, text)
TightQuery(prefix, text) ==
    "intitle:.ogg prefix:\"file:" \o prefix \o "-" \o text \o "\""

\* 'intitle:"%s" intitle:.ogg prefix:file:%s' % (text, primary)
LooseQuery(text, primary) ==
    "intitle:\"" \o text \o "\" intitle:.ogg prefix:file:" \o primary

\* '%s intitle:.ogg prefix:file:%s' % (text, primary)
WholeQuery(text, primary) ==
    text \o " intitle:.ogg prefix:file:" \o primary


(***************************************************************************)
(* The collaborators of the providers (Service base class, the network,    *)
(* the external converter), as the specification describes them            *)
(***************************************************************************)

\* requirements a caller may declare for a fetch or a download
NoRequire == [mime |-> None, size |-> 0]

\* Service.net_stream / net_download validation: transport succeeded, the
\* declared mime type matches and the payload is not smaller than the minimum
Validates(resp, require) ==
    /\ resp.ok
    /\ require.mime = None \/ resp.mime = require.mime
    /\ resp.size >= require.size

\* Service.path_temp: a fresh process-unique temporary path for one format
\* (serial: the number of the run() that asks, which asks at most once)
path_temp(ext, serial) == "tmp" \o ToString(serial) \o "." \o ext

\* Service.path_unlink: the file system without the path
path_unlink(fs, path) == [p \in DOMAIN fs \ {path} |-> fs[p]]

\* writing content to a path
WriteFile(fs, path, content) ==
    [p \in DOMAIN fs \cup {path} |-> IF p = path THEN content ELSE fs[p]]

\* Service.net_download: writes the payload to path; a payload that fails the
\* declared requirements raises, and the file may (leftover) or may not have
\* been written by then
net_download(fs, path, resp, require, leftover) ==
    IF Validates(resp, require)
    THEN [raised |-> FALSE,
          files |-> WriteFile(fs, path, [mime |-> resp.mime, size |-> resp.size])]
    ELSE [raised |-> TRUE,
          files |-> IF resp.ok /\ leftover
                    THEN WriteFile(fs, path, [mime |-> resp.mime, size |-> resp.size])
                    ELSE fs]

\* Service.net_dump: a download with no declared requirements
net_dump(fs, path, resp) == net_download(fs, path, resp, NoRequire, FALSE)

\* Service.cli_transcode: rejects an input smaller than size_in before the
\* external converter runs; the converter writes the output or fails
cli_transcode(fs, input, output, size_in, converts) ==
    LET in == IF input \in DOMAIN fs THEN fs[input] ELSE [mime |-> None, size |-> 0]
    IN  IF in.size < size_in
        THEN [raised |-> TRUE, ran |-> FALSE, files |-> fs]
        ELSE IF converts
             THEN [raised |-> FALSE, ran |-> TRUE,
                   files |-> WriteFile(fs, output,
                                       [mime |-> "audio/mpeg", size |-> in.size])]
             ELSE [raised |-> TRUE, ran |-> TRUE, files |-> fs]

(***************************************************************************)
(* Result extraction                                                       *)
(***************************************************************************)

RECURSIVE RE_FILE_LINK_search(_)
\* RE_FILE_LINK.search(page).group(1): the page is the sequence of its result
\* lines; a line matches when it links an .ogg file and states a duration of
\* at most two digits of seconds ("sound file, NN s")
RE_FILE_LINK_search(page) ==
    IF page = <<>> THEN None
    ELSE IF Head(page).ogg /\ Head(page).short THEN Head(page).file
         ELSE RE_FILE_LINK_search(Tail(page))

RECURSIVE SoundsOfTag(_)
\* OxfordLister.handle_starttag: [v for k, v in attrs if k == 'data-src-mp3']
SoundsOfTag(attrs) ==
    IF attrs = <<>> THEN <<>>
    ELSE (IF Head(attrs)[1] = "data-src-mp3" THEN <<Head(attrs)[2]>> ELSE <<>>)
             \o SoundsOfTag(Tail(attrs))

RECURSIVE OxfordListerFeed(_)
\* OxfordLister.reset + feed: parser.sounds after the page's start tags
OxfordListerFeed(tags) ==
    IF tags = <<>> THEN <<>>
    ELSE SoundsOfTag(Head(tags)) \o OxfordListerFeed(Tail(tags))

(***************************************************************************)
(* Inputs and environment of the model                                     *)
(***************************************************************************)

\* the Wiki provider instances and the one Oxford provider
Inst == {"w1", "w2"}
OxfordProc == "ox"
Procs == Inst \cup {OxfordProc}

\* the destination path each caller passes to run()
Dest(p) == p \o ".mp3"

X9 == "xxxxxxxxx"
X99 == X9 \o X9 \o X9 \o X9 \o X9 \o X9 \o X9 \o X9 \o X9 \o X9 \o X9
\* 101 characters, 99 of them once the quotes are removed
LongText == "\"" \o X99 \o "\""

\* the run() calls made on a Wiki instance: <<text, voice option as the user
\* gives it (before transform)>>
WikiInputs ==
    { <<"Hallo", "de">>, <<"\"a b\"", "PT-br">>, <<"Hallo", "German">>,
      <<"Hallo", "klingon">>, <<LongText, "de">> }

OxfordTexts == {"cat", "United Kingdom"}
\* voice option values as the user gives them: every alias, the codes, a stranger
OxfordVoiceOptions ==
    OxfordAliasesUS \cup OxfordAliasesGB \cup {"en-US", "en-GB", "klingon"}

Mimes == {"text/html", "audio/mpeg"}
Sizes == {WikiSearchMinSize - 1, WikiSearchMinSize}

F1 == "De-Hallo.ogg"
F2 == "Hallo2.ogg"
\* search result pages the Commons may serve
WikiPages ==
    { <<>>,
      << [file |-> F1, ogg |-> TRUE, short |-> TRUE] >>,
      << [file |-> F1, ogg |-> TRUE, short |-> FALSE] >>,
      << [file |-> "Hallo.png", ogg |-> FALSE, short |-> FALSE],
         [file |-> F2, ogg |-> TRUE, short |-> FALSE],
         [file |-> F1, ogg |-> TRUE, short |-> TRUE],
         [file |-> F2, ogg |-> TRUE, short |-> TRUE] >> }

U1 == "http://media/cat_gb.mp3"
U2 == "http://media/cat_us.mp3"
\* dictionary pages: each a sequence of start tags, each a sequence of attributes
OxfordPages ==
    { <<>>,
      << << <<"class", "entry">> >> >>,
      << << <<"class", "sound">>, <<"data-src-mp3", U1>> >> >>,
      << << <<"data-src-mp3", U2>> >>, << <<"data-src-mp3", U1>> >> >> }

\* what the network may answer to a page request
PageResponses(pages) ==
    [ok : {TRUE}, mime : Mimes, size : Sizes, body : pages]
        \cup {[ok |-> FALSE, mime |-> None, size |-> 0, body |-> <<>>]}

\* what the network may answer to a file request
FileResponses ==
    [ok : {TRUE}, mime : Mimes, size : Sizes]
        \cup {[ok |-> FALSE, mime |-> None, size |-> 0]}


(***************************************************************************)
(* State                                                                   *)
(***************************************************************************)

VARIABLES
    cache,    \* cache[i]: Wiki._cache of instance i, a dict query -> filename or None
    frame,    \* frame[i]: the locals and position of instance i's run()
    ox,       \* the locals and position of Oxford.run()
    files,    \* the file system: path -> content, for the paths that exist
    runs,     \* run() invocations started so far
    before,   \* before[p]: what the destination path held when p's run() was entered
    calls,    \* calls[p]: the calls made by p's current run(), in order
    fetched,  \* fetched[i]: the queries instance i has passed to net_stream so far
    notfound, \* notfound[i]: <<text, voice option, error>> of the run()s of instance i
              \* that ended with the not-found error
    say       \* the locals and position of recordOSXsayTTS()

vars == <<cache, frame, ox, files, runs, before, calls, fetched, notfound, say>>

\* errors a run() ends with
ErrTooLong == "Input text is too long for the Wikimedia Commons"
ErrPhrase == "Cannot find anything on the Wikimedia Commons for this phrase. For phrases, you may want to try another service."
ErrWord == "Cannot find this word on the Wikimedia Commons."
ErrSoundNotFound == "sound not found: "
KeyError == "KeyError"
RetrievalError == "retrieval failure"
TranscodeError == "transcoding failure"

Absent == [mime |-> None, size |-> 0]
\* an empty dict, an empty file system
EmptyDict == [q \in {} |-> None]
FileAt(fs, path) == IF path \in DOMAIN fs THEN fs[path] ELSE Absent

IdleFrame ==
    [pc |-> "idle", option |-> None, input |-> "", text |-> "", primary |-> None, n |-> 0,
     filename |-> None, output_wav |-> Unbound, exc |-> None]

IdleOx ==
    [pc |-> "idle", option |-> None, input |-> "", text |-> "", voice |-> None,
     dict_url |-> "", page |-> <<>>, sounds |-> <<>>, exc |-> None]

IdleSay ==
    [pc |-> "idle", text |-> "", voice |-> None, filename_aiff |-> Unbound,
     filename_mp3 |-> Unbound, trace |-> <<>>, exc |-> None]

Init ==
    /\ cache = [i \in Inst |-> EmptyDict]
    /\ frame = [i \in Inst |-> IdleFrame]
    /\ ox = IdleOx
    /\ files = EmptyDict
    /\ runs = 0
    /\ before = [p \in Procs |-> Absent]
    /\ calls = [p \in Procs |-> <<>>]
    /\ fetched = [i \in Inst |-> {}]
    /\ notfound = [i \in Inst |-> {}]
    /\ say = IdleSay

Ended(pc) == pc \in {"returned", "raised"}

\* a truth test that only rejects the empty string
TruthyNotEmpty(v) == v # ""

\* Python truth value of a filename-or-None
Truthy(v) == v # None /\ v # ""

\* one call in the trace of a run(): what was called, with which argument,
\* whether it returned (ok) or raised, the value a search returned, the
\* payload (mime, size) the call received, if any, and whether the call passed
\* that payload on (to the extractor, to the converter, to the destination)
Call(op, arg, ok, value, payload, passed) ==
    [op |-> op, arg |-> arg, ok |-> ok, value |-> value,
     mime |-> payload.mime, size |-> payload.size, passed |-> passed]

\* the payload of a network answer, if the transport delivered one
Payload(resp) == IF resp.ok THEN [mime |-> resp.mime, size |-> resp.size] ELSE Absent

(***************************************************************************)
(* Wiki.run                                                                *)
(***************************************************************************)

\* the length check made after the quotes are removed
TooLongAfterStrip(text) == Len(StrReplaceChar(text, "\"", "")) > TextLimit

\* if len(text) > 100
TooLong(text) == Len(text) > TextLimit

\* the search page fetched with no requirements declared
WikiSearchNoRequire == [mime |-> None, size |-> 0]

\* require of the search page fetch
WikiSearchRequire == [mime |-> "text/html", size |-> WikiSearchMinSize]

\* a search that never finds its query in the cache
CacheNeverHit(c, query) == TRUE

\* a search that treats a stored "nothing found" as no entry
CacheMissOrNone(c, query) == query \notin DOMAIN c \/ c[query] = None

\* if query not in cache
CacheMiss(c, query) == query \notin DOMAIN c

\* one dict shared by all instances (a class attribute)
SetCacheShared(all, i, c) == [j \in DOMAIN all |-> c]

\* cache[query] = ... on the dict of instance i (each instance owns its dict)
SetCache(all, i, c) == [all EXCEPT ![i] = c]

\* a failed fetch recorded as "nothing found"
StoreNoneOnFailure(c, query) ==
    [q \in DOMAIN c \cup {query} |-> IF q = query THEN None ELSE c[q]]

\* the dict after net_stream raised: the assignment cache[query] = ... is not
\* reached
StoreOnFailure(c, query) == c

\* search(query) on dict c when the network answers resp
search(c, query, resp) ==
    IF CacheMiss(c, query)
    THEN IF Validates(resp, WikiSearchRequire)
         THEN LET capture == RE_FILE_LINK_search(resp.body)
                  stored == [q \in DOMAIN c \cup {query} |->
                                IF q = query THEN capture ELSE c[q]]
              IN  [raised |-> FALSE, fetched |-> TRUE, cache |-> stored,
                   value |-> stored[query]]
         ELSE [raised |-> TRUE, fetched |-> TRUE, cache |-> StoreOnFailure(c, query),
               value |-> None]
    ELSE [raised |-> FALSE, fetched |-> FALSE, cache |-> c, value |-> c[query]]

\* one search() call of instance i: what it does to everything but frame
Searching(i, query, resp, out) ==
    /\ cache' = SetCache(cache, i, out.cache)
    /\ fetched' = IF out.fetched
                  THEN [fetched EXCEPT ![i] = @ \cup {query}]
                  ELSE fetched
    /\ calls' = [calls EXCEPT ![i] =
                    @ \o (IF out.fetched
                          THEN <<Call("net_stream", query, ~out.raised, None,
                                      Payload(resp), ~out.raised)>>
                          ELSE <<>>)
                      \o <<Call("search", query, ~out.raised, out.value, Absent,
                                 FALSE)>>]
    /\ UNCHANGED <<ox, files, runs, before, notfound, say>>

\* a failed fetch caught inside run(), which goes on with the whole-text query
Swallow(f, exc) == [f EXCEPT !.pc = "whole"]

\* net_stream raises inside search(): nothing in search() or run() catches it,
\* the exception leaves run()
Propagate(f, exc) == [f EXCEPT !.pc = "raised", !.exc = exc]

\* where run() goes once filename is set and truthy: past "if not filename"
Found == "path_temp"

\* entry of run(): the length check, the quote removal, LOOKUP[primary]
WikiRun(i, text, option) ==
    /\ frame[i].pc = "idle"
    /\ runs < MaxRuns
    /\ runs' = runs + 1
    /\ LET voice == WikiTransformVoice(option)
           f == [IdleFrame EXCEPT !.option = option, !.input = text,
                                  !.primary = voice]
       IN  frame' = [frame EXCEPT ![i] =
             IF TooLong(text)
             THEN [f EXCEPT !.pc = "raised", !.text = text, !.exc = ErrTooLong]
             ELSE IF voice \notin DOMAIN LOOKUP
                  THEN [f EXCEPT !.pc = "raised", !.exc = KeyError,
                                 !.text = StrReplaceChar(text, "\"", "")]
                  ELSE [f EXCEPT !.pc = "tight", !.n = 1,
                                 !.text = StrReplaceChar(text, "\"", "")]]
    /\ before' = [before EXCEPT ![i] = FileAt(files, Dest(i))]
    /\ calls' = [calls EXCEPT ![i] = <<>>]
    /\ UNCHANGED <<cache, ox, files, fetched, notfound, say>>

\* for prefix in prefixes: filename = search(tight); if filename: break
WikiTight(i) ==
    /\ frame[i].pc = "tight"
    /\ \E resp \in PageResponses(WikiPages) :
         LET f == frame[i]
             prefixes == LOOKUP[f.primary].prefixes
             query == TightQuery(prefixes[f.n], f.text)
             out == search(cache[i], query, resp)
         IN  /\ Searching(i, query, resp, out)
             /\ frame' = [frame EXCEPT ![i] =
                   IF out.raised
                   THEN Propagate(f, RetrievalError)
                   ELSE IF Truthy(out.value)
                        THEN [f EXCEPT !.pc = Found, !.filename = out.value]
                        ELSE IF f.n < Len(prefixes)
                             THEN [f EXCEPT !.n = f.n + 1, !.filename = out.value]
                             ELSE [f EXCEPT !.pc = "loose", !.filename = out.value]]

\* else: filename = search(loose)
WikiLoose(i) ==
    /\ frame[i].pc = "loose"
    /\ \E resp \in PageResponses(WikiPages) :
         LET f == frame[i]
             query == LooseQuery(f.text, f.primary)
             out == search(cache[i], query, resp)
         IN  /\ Searching(i, query, resp, out)
             /\ frame' = [frame EXCEPT ![i] =
                   IF out.raised
                   THEN Propagate(f, RetrievalError)
                   ELSE IF Truthy(out.value)
                        THEN [f EXCEPT !.pc = Found, !.filename = out.value]
                        ELSE [f EXCEPT !.pc = "whole", !.filename = out.value]]

\* a not-found message that does not look at the text
NotFoundMessageWord(text) == ErrWord

\* the message of the not-found IOError: "... for this phrase ..." if
\* text.count(' ') else "... this word ..."
NotFoundMessage(text) == IF StrCount(text, " ") > 0 THEN ErrPhrase ELSE ErrWord

\* if not filename: filename = search(whole); if not filename: raise IOError
WikiWhole(i) ==
    /\ frame[i].pc = "whole"
    /\ \E resp \in PageResponses(WikiPages) :
         LET f == frame[i]
             query == WholeQuery(f.text, f.primary)
             out == search(cache[i], query, resp)
         IN  /\ Searching(i, query, resp, out)
             /\ frame' = [frame EXCEPT ![i] =
                   IF out.raised
                   THEN Propagate(f, RetrievalError)
                   ELSE IF Truthy(out.value)
                        THEN [f EXCEPT !.pc = Found, !.filename = out.value]
                        ELSE [f EXCEPT !.pc = "raised", !.filename = out.value,
                                       !.exc = NotFoundMessage(f.text)]]

\* a try block without its finally clause: an exception leaves run() at once
AfterTryNoFinally(raised) == IF raised THEN "raised" ELSE "path_unlink"

\* where control goes when the try block is left: the finally clause
AfterTry(raised) == "path_unlink"

\* the download URL of a Commons file (the md5 digest is left symbolic)
DumpUrl(filename) ==
    "http://upload.wikimedia.org/wikipedia/commons/<md5[0:1]>/<md5[0:2]>/" \o filename

\* try: output_wav = self.path_temp('wav')
WikiPathTemp(i) ==
    /\ frame[i].pc = "path_temp"
    /\ frame' = [frame EXCEPT ![i].output_wav = path_temp("wav", runs),
                              ![i].pc = "net_dump"]
    /\ calls' = [calls EXCEPT ![i] =
                    @ \o <<Call("path_temp", path_temp("wav", runs), TRUE,
                                None, Absent, FALSE)>>]
    /\ UNCHANGED <<cache, ox, files, runs, before, fetched, notfound, say>>

\* a download made straight to the caller's destination path
DumpPathDest(f, i) == Dest(i)

\* the path net_dump writes: its first argument, output_wav
DumpPath(f, i) == f.output_wav

\* self.net_dump(output_wav, url)
WikiNetDump(i) ==
    /\ frame[i].pc = "net_dump"
    /\ \E resp \in FileResponses :
         LET f == frame[i]
             out == net_dump(files, DumpPath(f, i), resp)
         IN  /\ files' = out.files
             /\ frame' = [frame EXCEPT ![i] =
                   IF out.raised
                   THEN [f EXCEPT !.pc = AfterTry(TRUE), !.exc = RetrievalError]
                   ELSE [f EXCEPT !.pc = "cli_transcode"]]
             /\ calls' = [calls EXCEPT ![i] =
                   @ \o <<Call("net_dump", DumpUrl(f.filename), ~out.raised,
                               None, Payload(resp), ~out.raised)>>]
    /\ UNCHANGED <<cache, ox, runs, before, fetched, notfound, say>>

\* self.cli_transcode(output_wav, path, require=dict(size_in=1024))
WikiCliTranscode(i) ==
    /\ frame[i].pc = "cli_transcode"
    /\ \E converts \in BOOLEAN :
         LET f == frame[i]
             out == cli_transcode(files, f.output_wav, Dest(i),
                                  WikiTranscodeMinSize, converts)
         IN  /\ files' = out.files
             /\ frame' = [frame EXCEPT ![i] =
                   IF out.raised
                   THEN [f EXCEPT !.pc = AfterTry(TRUE), !.exc = TranscodeError]
                   ELSE [f EXCEPT !.pc = AfterTry(FALSE)]]
             /\ calls' = [calls EXCEPT ![i] =
                   @ \o <<Call("cli_transcode", Dest(i), ~out.raised, None,
                               FileAt(files, f.output_wav), out.ran)>>]
    /\ UNCHANGED <<cache, ox, runs, before, fetched, notfound, say>>

\* finally: self.path_unlink(output_wav)
WikiPathUnlink(i) ==
    /\ frame[i].pc = "path_unlink"
    /\ files' = path_unlink(files, frame[i].output_wav)
    /\ frame' = [frame EXCEPT ![i].pc =
                    IF frame[i].exc = None THEN "returned" ELSE "raised"]
    /\ calls' = [calls EXCEPT ![i] =
                    @ \o <<Call("path_unlink", frame[i].output_wav, TRUE,
                                None, Absent, FALSE)>>]
    /\ UNCHANGED <<cache, ox, runs, before, fetched, notfound, say>>

\* run() has returned or raised: control is back with the caller
WikiExit(i) ==
    /\ Ended(frame[i].pc)
    /\ frame' = [frame EXCEPT ![i] = IdleFrame]
    /\ calls' = [calls EXCEPT ![i] = <<>>]
    /\ before' = [before EXCEPT ![i] = Absent]
    /\ notfound' = IF frame[i].exc \in {ErrPhrase, ErrWord}
                   THEN [notfound EXCEPT ![i] =
                           @ \cup {<<frame[i].input, frame[i].option, frame[i].exc>>}]
                   ELSE notfound
    /\ UNCHANGED <<cache, ox, files, runs, fetched, say>>

(***************************************************************************)
(* Oxford.run                                                              *)
(***************************************************************************)

\* self.net_stream(dict_url): no requirements are declared
OxfordPageRequire == NoRequire

\* require=dict(mime='audio/mpeg', size=1024)
OxfordAudioRequire == [mime |-> "audio/mpeg", size |-> OxfordAudioMinSize]

\* the last audio source of the page
sound_url_last(sounds) == sounds[Len(sounds)]

\* sound_url = parser.sounds[0]
sound_url(sounds) == sounds[1]

\* entry of run(): dict_url from the voice and the (modified) text
OxfordRun(text, option) ==
    /\ ox.pc = "idle"
    /\ runs < MaxRuns
    /\ runs' = runs + 1
    /\ LET voice == OxfordTransformVoice(option)
       IN  ox' = [IdleOx EXCEPT !.pc = "net_stream", !.option = option,
                                !.input = text,
                                !.voice = voice, !.text = modify(text),
                                !.dict_url = DictUrl(modify(text), voice)]
    /\ before' = [before EXCEPT ![OxfordProc] = FileAt(files, Dest(OxfordProc))]
    /\ calls' = [calls EXCEPT ![OxfordProc] = <<>>]
    /\ UNCHANGED <<cache, frame, files, fetched, notfound, say>>

\* parser.feed(self.net_stream(dict_url)); if len(parser.sounds) > 0 ... else raise
OxfordNetStream ==
    /\ ox.pc = "net_stream"
    /\ \E resp \in PageResponses(OxfordPages) :
         IF Validates(resp, OxfordPageRequire)
         THEN LET sounds == OxfordListerFeed(resp.body)
              IN  /\ ox' = IF Len(sounds) > 0
                           THEN [ox EXCEPT !.pc = "net_download", !.sounds = sounds,
                                           !.page = resp.body]
                           ELSE [ox EXCEPT !.pc = "raised", !.sounds = sounds,
                                           !.page = resp.body,
                                           !.exc = ErrSoundNotFound \o ox.dict_url]
                  /\ calls' = [calls EXCEPT ![OxfordProc] =
                                 @ \o <<Call("net_stream", ox.dict_url, TRUE, None,
                                             Payload(resp), TRUE)>>]
         ELSE /\ ox' = [ox EXCEPT !.pc = "raised", !.exc = RetrievalError]
              /\ calls' = [calls EXCEPT ![OxfordProc] =
                             @ \o <<Call("net_stream", ox.dict_url, FALSE, None,
                                         Payload(resp), FALSE)>>]
    /\ UNCHANGED <<cache, frame, files, runs, before, fetched, notfound, say>>

\* self.net_download(path, parser.sounds[0], require=...)
OxfordNetDownload ==
    /\ ox.pc = "net_download"
    /\ \E resp \in FileResponses, leftover \in BOOLEAN :
         LET out == net_download(files, Dest(OxfordProc), resp,
                                 OxfordAudioRequire, leftover)
         IN  /\ files' = out.files
             /\ ox' = IF out.raised
                      THEN [ox EXCEPT !.pc = "raised", !.exc = RetrievalError]
                      ELSE [ox EXCEPT !.pc = "returned"]
             /\ calls' = [calls EXCEPT ![OxfordProc] =
                            @ \o <<Call("net_download", sound_url(ox.sounds), ~out.raised,
                                        None, Payload(resp), ~out.raised)>>]
    /\ UNCHANGED <<cache, frame, runs, before, fetched, notfound, say>>

\* run() has returned or raised: control is back with the caller
OxfordExit ==
    /\ Ended(ox.pc)
    /\ ox' = IdleOx
    /\ calls' = [calls EXCEPT ![OxfordProc] = <<>>]
    /\ before' = [before EXCEPT ![OxfordProc] = Absent]
    /\ UNCHANGED <<cache, frame, files, runs, fetched, notfound, say>>

(***************************************************************************)
(* recordOSXsayTTS                                                         *)
(***************************************************************************)

StartsWith(s, prefix) ==
    Len(s) >= Len(prefix) /\ SubSeq(s, 1, Len(prefix)) = prefix

RECURSIVE AfterChar(_, _)
\* what follows the first c of s; None when s has no c
AfterChar(s, c) ==
    IF s = "" THEN None
    ELSE IF Head(s) = c THEN Tail(s) ELSE AfterChar(Tail(s), c)

RECURSIVE SubDelimited(_, _, _)
\* re.sub(open + ".*?" + close, "", s) for a one-character close
SubDelimited(s, open, close) ==
    IF s = "" THEN ""
    ELSE IF StartsWith(s, open)
              /\ AfterChar(SubSeq(s, Len(open) + 1, Len(s)), close) # None
         THEN SubDelimited(AfterChar(SubSeq(s, Len(open) + 1, Len(s)), close),
                           open, close)
         ELSE Head(s) \o SubDelimited(Tail(s), open, close)

\* anki.utils.stripHTML: the text without its tags
stripHTML(s) == SubDelimited(s, "<", ">")

\* re.sub("\[sound:.*?\]", "", stripHTML(text.replace("\n", "")))
SayText(text) ==
    SubDelimited(stripHTML(StrReplaceChar(text, "\n", "")), "[sound:", "]")

\* util.generateFileName(text, 'say', 'iso-8859-1', extension)
generateFileName(text, service, extension) == service \o "-" \o text \o extension

\* how a subprocess.Popen(...).wait() can end: the command ran and exited
\* with status 0, it ran and exited with another status, or it could not be
\* started and Popen raised OSError
PopenOutcomes == {"exit0", "exit1", "OSError"}

SayTexts == {"hi", "<b>hi</b>", "a[sound:x.mp3]b\n"}
SayVoices == {"Alex", "Vicki"}

Aiff == [mime |-> "audio/x-aiff", size |-> WikiTranscodeMinSize]
Mp3 == [mime |-> "audio/mpeg", size |-> WikiTranscodeMinSize]

\* entry of recordOSXsayTTS(): the text cleaned, the two file names
recordOSXsayTTS(text, voice) ==
    /\ say.pc = "idle"
    /\ runs < MaxRuns
    /\ runs' = runs + 1
    /\ say' = [IdleSay EXCEPT
                 !.pc = "say", !.text = SayText(text), !.voice = voice,
                 !.filename_aiff = generateFileName(SayText(text), "say", ".aiff"),
                 !.filename_mp3 = generateFileName(SayText(text), "say", ".mp3")]
    /\ UNCHANGED <<cache, frame, ox, files, before, calls, fetched, notfound>>

\* Popen(['say', '-v', voice, '-o', filename_aiff, text]).wait()
SayPopenSay ==
    /\ say.pc = "say"
    /\ \E outcome \in PopenOutcomes :
         /\ say' = IF outcome = "OSError"
                   THEN [say EXCEPT !.pc = "raised", !.exc = "OSError"]
                   ELSE [say EXCEPT !.pc = "lame", !.trace = @ \o <<"say">>]
         /\ files' = IF outcome = "exit0"
                     THEN WriteFile(files, say.filename_aiff, Aiff)
                     ELSE files
    /\ UNCHANGED <<cache, frame, ox, runs, before, calls, fetched, notfound>>

\* Popen(['lame', '--quiet', filename_aiff, filename_mp3]).wait(): the exit
\* status is not looked at
SayPopenLame ==
    /\ say.pc = "lame"
    /\ \E outcome \in PopenOutcomes :
         /\ say' = IF outcome = "OSError"
                   THEN [say EXCEPT !.pc = "raised", !.exc = "OSError"]
                   ELSE [say EXCEPT !.pc = "rm", !.trace = @ \o <<"lame">>]
         /\ files' = IF outcome = "exit0" /\ say.filename_aiff \in DOMAIN files
                     THEN WriteFile(files, say.filename_mp3, Mp3)
                     ELSE files
    /\ UNCHANGED <<cache, frame, ox, runs, before, calls, fetched, notfound>>

\* Popen(['rm', filename_aiff]).wait(); return filename_mp3
SayPopenRm ==
    /\ say.pc = "rm"
    /\ \E outcome \in PopenOutcomes :
         /\ say' = IF outcome = "OSError"
                   THEN [say EXCEPT !.pc = "raised", !.exc = "OSError"]
                   ELSE [say EXCEPT !.pc = "returned", !.trace = @ \o <<"rm">>]
         /\ files' = IF outcome = "exit0"
                     THEN path_unlink(files, say.filename_aiff)
                     ELSE files
    /\ UNCHANGED <<cache, frame, ox, runs, before, calls, fetched, notfound>>

\* recordOSXsayTTS() has returned or raised: control is back with the caller
SayExit ==
    /\ Ended(say.pc)
    /\ say' = IdleSay
    /\ UNCHANGED <<cache, frame, ox, files, runs, before, calls, fetched, notfound>>

(***************************************************************************)
(* Specification                                                           *)
(***************************************************************************)

\* the instance the single-threaded host uses
SerialInst == {"w1"}

\* no run() is in progress
Quiet == ox.pc = "idle" /\ \A i \in Inst : frame[i].pc = "idle"

\* The host calls the providers from one thread: a run() is entered when no
\* other is in progress.
Next ==
    \/ \E i \in SerialInst, in \in WikiInputs :
          Quiet /\ WikiRun(i, in[1], in[2])
    \/ \E i \in Inst : WikiTight(i)
    \/ \E i \in Inst : WikiLoose(i)
    \/ \E i \in Inst : WikiWhole(i)
    \/ \E i \in Inst : WikiPathTemp(i)
    \/ \E i \in Inst : WikiNetDump(i)
    \/ \E i \in Inst : WikiCliTranscode(i)
    \/ \E i \in Inst : WikiPathUnlink(i)
    \/ \E i \in Inst : WikiExit(i)
    \/ \E text \in OxfordTexts, option \in OxfordVoiceOptions :
          Quiet /\ OxfordRun(text, option)
    \/ OxfordNetStream
    \/ OxfordNetDownload
    \/ OxfordExit

Spec == Init /\ [][Next]_vars


\* Two Wiki instances used at the same time, each by its own caller: their
\* run()s interleave call by call.
ConcInputs == { <<"Hallo", "de">> }

NextConc ==
    \/ \E i \in Inst, in \in ConcInputs :
          WikiRun(i, in[1], in[2])
    \/ \E i \in Inst : WikiTight(i)
    \/ \E i \in Inst : WikiLoose(i)
    \/ \E i \in Inst : WikiWhole(i)
    \/ \E i \in Inst : WikiPathTemp(i)
    \/ \E i \in Inst : WikiNetDump(i)
    \/ \E i \in Inst : WikiCliTranscode(i)
    \/ \E i \in Inst : WikiPathUnlink(i)
    \/ \E i \in Inst : WikiExit(i)

SpecConc == Init /\ [][NextConc]_vars

\* The local synthesizer backend, called by the host one request at a time.
NextSay ==
    \/ \E text \in SayTexts, voice \in SayVoices : recordOSXsayTTS(text, voice)
    \/ SayPopenSay
    \/ SayPopenLame
    \/ SayPopenRm
    \/ SayExit

SpecSay == Init /\ [][NextSay]_vars

(***************************************************************************)
(* Properties                                                              *)
(***************************************************************************)

\* the calls a step appends to the trace of p's run()
NewCalls(p) ==
    IF Len(calls'[p]) > Len(calls[p])
    THEN SubSeq(calls'[p], Len(calls[p]) + 1, Len(calls'[p]))
    ELSE <<>>

\* the step passes query to net_stream on behalf of instance i
Fetches(i, query) ==
    \E k \in DOMAIN NewCalls(i) :
        NewCalls(i)[k].op = "net_stream" /\ NewCalls(i)[k].arg = query

IsSearch(c) == c.op = "search"
\* the search() calls of p's current run(), in order
Searches(p) == SelectSeq(calls[p], IsSearch)

Last(seq) == seq[Len(seq)]

\* the steps of run() inside the try block and its finally clause
InBlock(pc) == pc \in {"net_dump", "cli_transcode", "path_unlink"}

(* C1, as stated: on one instance the same query is passed to net_stream at
   most once over any sequence of run() calls, and every search of the query
   that returns, returns the value the cache holds for it. *)
C1_FetchedAtMostOnce ==
    [][\A i \in Inst :
          /\ \A q \in fetched[i] : ~Fetches(i, q)
          /\ \A k \in DOMAIN NewCalls(i) :
                IsSearch(NewCalls(i)[k]) /\ NewCalls(i)[k].ok
                    => /\ NewCalls(i)[k].arg \in DOMAIN cache'[i]
                       /\ NewCalls(i)[k].value = cache'[i][NewCalls(i)[k].arg]]_vars

(* C1, amended: on one instance a query whose fetch has succeeded (it has a
   cache entry) is never passed to net_stream again and its entry never
   changes, and every search of a query that returns, returns the value of
   that entry, so all searches of the query return the identical result. A
   query whose fetch failed has no entry and is fetched again. *)
C1_FetchedOnceStored ==
    [][\A i \in Inst :
          /\ \A q \in DOMAIN cache[i] :
                /\ ~Fetches(i, q)
                /\ q \in DOMAIN cache'[i]
                /\ cache'[i][q] = cache[i][q]
          /\ \A k \in DOMAIN NewCalls(i) :
                IsSearch(NewCalls(i)[k]) /\ NewCalls(i)[k].ok
                    => /\ NewCalls(i)[k].arg \in DOMAIN cache'[i]
                       /\ NewCalls(i)[k].value = cache'[i][NewCalls(i)[k].arg]]_vars

\* a search has been answered from the cache: no fetch of its query in this run
C1_Witness ==
    \E i \in Inst : \E k \in DOMAIN calls[i] :
        /\ IsSearch(calls[i][k]) /\ calls[i][k].ok
        /\ calls[i][k].arg \in fetched[i]
        /\ \A j \in DOMAIN calls[i] :
              ~(calls[i][j].op = "net_stream" /\ calls[i][j].arg = calls[i][k].arg)

(* C2: once run() has ended, by return or by raise, after entering the
   download/transcode block, its temporary wav path does not exist, the last
   call of the run was path_unlink on that path, and no temporary file is left
   on the file system. *)
C2_TempRemoved ==
    \A i \in Inst :
        /\ Ended(frame[i].pc) /\ frame[i].output_wav # Unbound
              => /\ frame[i].output_wav \notin DOMAIN files
                 /\ Last(calls[i]).op = "path_unlink"
                 /\ Last(calls[i]).arg = frame[i].output_wav
        /\ Ended(frame[i].pc) /\ (\A j \in Inst : ~InBlock(frame[j].pc))
              => DOMAIN files \subseteq {Dest(p) : p \in Procs}

\* a run() that raised from inside the block, after its download was written
C2_Witness ==
    \E i \in Inst :
        /\ frame[i].pc = "raised"
        /\ frame[i].exc = TranscodeError
        /\ frame[i].output_wav # Unbound

(* C3, as stated: whenever Oxford.run or Wiki.run has ended in failure, the
   destination path holds exactly what it held when run() was entered. *)
C3_DestUntouchedOnFailure ==
    /\ \A i \in Inst :
          frame[i].pc = "raised" => FileAt(files, Dest(i)) = before[i]
    /\ ox.pc = "raised" => FileAt(files, Dest(OxfordProc)) = before[OxfordProc]

AudioMimes == {"audio/mpeg", "application/ogg"}

(* C4, as stated: every page that reaches an extractor is text/html of at
   least the minimum size, every file that reaches the converter or the
   destination is audio of at least the minimum size. *)
C4_EveryResourceChecked ==
    \A p \in Procs : \A k \in DOMAIN calls[p] :
        LET c == calls[p][k]
        IN  c.passed =>
              /\ c.op = "net_stream"
                    => c.mime = "text/html" /\ c.size >= WikiSearchMinSize
              /\ c.op \in {"cli_transcode", "net_download"}
                    => c.mime \in AudioMimes /\ c.size >= OxfordAudioMinSize

(* C4, amended: a resource is checked against the requirements its call
   declares. The Wiki search page is text/html of at least 1024 bytes or the
   fetch raises and RE_FILE_LINK never sees it; the file Wiki downloaded is at
   least 1024 bytes or cli_transcode raises before the converter runs (its
   mime type is not checked); the Oxford audio file is audio/mpeg of at least
   1024 bytes or net_download raises. The Oxford dictionary page is fetched
   with no requirements. A call whose payload fails a declared requirement
   always raises and the run() ends in failure. *)
C4_DeclaredRequirementsChecked ==
    /\ \A i \in Inst : \A k \in DOMAIN calls[i] :
          LET c == calls[i][k]
          IN  /\ c.op = "net_stream" /\ c.mime # None
                    => (c.passed /\ c.ok) =
                          (c.mime = "text/html" /\ c.size >= WikiSearchMinSize)
              /\ c.op = "cli_transcode"
                    => /\ c.passed = (c.size >= WikiTranscodeMinSize)
                       /\ ~c.passed => ~c.ok
              /\ ~c.ok => frame[i].exc # None
    /\ \A k \in DOMAIN calls[OxfordProc] :
          LET c == calls[OxfordProc][k]
          IN  /\ c.op = "net_download" /\ c.mime # None
                    => (c.passed /\ c.ok) =
                          (c.mime = "audio/mpeg" /\ c.size >= OxfordAudioMinSize)
              /\ ~c.ok => ox.pc = "raised"

\* a search page that the transport delivered and the requirements rejected
C4_Witness ==
    \E i \in Inst :
        /\ frame[i].pc = "raised"
        /\ calls[i] # <<>>
        /\ Last(calls[i]).op = "search"
        /\ \E k \in DOMAIN calls[i] :
              /\ calls[i][k].op = "net_stream"
              /\ calls[i][k].mime # None
              /\ ~calls[i][k].ok


(* C5: a Wiki.run entered with a text of more than 100 characters ends at
   once with the input-rejection error: it has made no call at all (no
   net_stream, path_temp, net_dump or cli_transcode), and entering it changed
   neither the cache of any instance nor the file system. *)
C5_RejectedBeforeNetwork ==
    /\ [](\A i \in Inst :
            frame[i].pc # "idle" /\ Len(frame[i].input) > TextLimit
                => /\ frame[i].pc = "raised"
                   /\ frame[i].exc = ErrTooLong
                   /\ calls[i] = <<>>
                   /\ frame[i].output_wav = Unbound)
    /\ [][\A i \in Inst :
            frame[i].pc = "idle" /\ frame'[i].pc # "idle"
                    /\ Len(frame'[i].input) > TextLimit
                => cache' = cache /\ files' = files /\ fetched' = fetched]_vars

\* an over-long text rejected by an instance whose cache already has entries
C5_Witness ==
    \E i \in Inst :
        /\ frame[i].exc = ErrTooLong
        /\ Len(frame[i].input) > TextLimit
        /\ cache[i] # EmptyDict

\* the ordered list of queries of one run(): the tight query of each prefix of
\* the voice in LOOKUP order, then the loose query, then the whole-text query
StrategyList(text, primary) ==
    [k \in 1..Len(LOOKUP[primary].prefixes) |->
        "intitle:.ogg prefix:\"file:" \o LOOKUP[primary].prefixes[k] \o "-"
            \o text \o "\""]
    \o << "intitle:\"" \o text \o "\" intitle:.ogg prefix:file:" \o primary,
          text \o " intitle:.ogg prefix:file:" \o primary >>

(* C6: within one Wiki.run the queries searched are, in order, a prefix of
   the strategy list; every search but the last returned "nothing found", so
   nothing is searched after a success or a failure; no query is searched
   twice; while nothing is found and the list is not exhausted the run goes on
   to the next query; and when a search yields a filename, tight or looser,
   the run proceeds to the download with exactly that filename and never
   raises the not-found error. *)
C6_FallbackOrder ==
    \A i \in Inst :
        LET f == frame[i]
            S == Searches(i)
        IN  f.pc # "idle" /\ ~(Len(f.input) > TextLimit) /\ f.primary \in DOMAIN LOOKUP
            => LET L == StrategyList(f.text, f.primary)
                   allMiss == \A k \in DOMAIN S : S[k].ok /\ S[k].value = None
               IN  /\ Len(S) <= Len(L)
                   /\ \A k \in DOMAIN S : S[k].arg = L[k]
                   /\ \A k \in DOMAIN S :
                         k < Len(S) => S[k].ok /\ S[k].value = None
                   /\ \A j, k \in DOMAIN S : j # k => S[j].arg # S[k].arg
                   /\ f.pc \in {"tight", "loose", "whole"}
                         <=> allMiss /\ Len(S) < Len(L)
                   /\ f.pc = "tight" => Len(S) < Len(L) - 2
                   /\ f.pc = "loose" => Len(S) = Len(L) - 2
                   /\ f.pc = "whole" => Len(S) = Len(L) - 1
                   /\ f.exc \in {ErrWord, ErrPhrase}
                         <=> allMiss /\ Len(S) = Len(L)
                   /\ S # <<>> /\ Last(S).ok /\ Last(S).value # None
                         => /\ f.filename = Last(S).value
                            /\ f.pc = "path_temp" \/ InBlock(f.pc) \/ Ended(f.pc)
                            /\ f.exc \in {None, RetrievalError, TranscodeError}
                   /\ f.pc = "path_temp" \/ InBlock(f.pc) \/ f.pc = "returned"
                         => S # <<>> /\ Last(S).ok /\ Last(S).value # None

\* a run() that found nothing with any tight query and proceeds to the
\* download with the filename the loose query yielded
C6_Witness ==
    \E i \in Inst :
        /\ frame[i].pc = "net_dump"
        /\ frame[i].primary = "pt"
        /\ Len(Searches(i)) = Len(LOOKUP["pt"].prefixes) + 1
        /\ frame[i].filename = Last(Searches(i)).value

(* C7, as stated: a Wiki.run whose voice option is "German" runs with the
   voice "de", so it is not refused for its voice, and for the text "Hallo"
   its first search is the tight query 'intitle:.ogg prefix:"file:de-Hallo"'. *)
C7_GermanIsDe ==
    \A i \in Inst :
        frame[i].pc # "idle" /\ frame[i].option = "German"
            => /\ frame[i].primary = "de"
               /\ frame[i].exc # KeyError
               /\ frame[i].text = "Hallo" /\ Searches(i) # <<>>
                     => Searches(i)[1].arg = "intitle:.ogg prefix:\"file:de-Hallo\""

\* the voices the providers know
KnownVoices == DOMAIN LOOKUP \cup {"en-US", "en-GB"}

(* C8, as stated: a run() whose voice option is a value the transform did not
   recognize and passed through unchanged does not fail because of the voice:
   it ends with none but the documented input-rejection, retrieval, not-found
   and transcoding errors, and unless the text is rejected it issues its
   query. *)
C8_UnknownVoiceTolerated ==
    /\ \A i \in Inst :
          frame[i].pc # "idle" /\ frame[i].primary \notin KnownVoices
              => /\ frame[i].primary = frame[i].option
                 /\ frame[i].exc \in {None, ErrTooLong, RetrievalError, ErrWord,
                                      ErrPhrase, TranscodeError}
                 /\ Ended(frame[i].pc) /\ frame[i].exc # ErrTooLong
                       => calls[i] # <<>>
    /\ ox.pc # "idle" /\ ox.voice \notin KnownVoices
          => /\ ox.voice = ox.option
             /\ ox.exc \in {None, RetrievalError, ErrSoundNotFound \o ox.dict_url}
             /\ Ended(ox.pc) => calls[OxfordProc] # <<>>

\* the alias strings of the Oxford voice option, and its official codes
OxfordAliases == OxfordAliasesUS \cup OxfordAliasesGB
OxfordCodes == {"en-US", "en-GB"}

(* C9: for every run() whose voice option is an alias that the transform
   maps to a canonical code (an alias of the Oxford table, or a Wiki option
   that was mapped to a code of LOOKUP), the voice the run got is a fixed
   point of the transform: transform(transform(option)) = transform(option). *)
C9_TransformIdempotent ==
    /\ \A i \in Inst :
          frame[i].pc # "idle" /\ frame[i].primary \in DOMAIN LOOKUP
              => WikiTransformVoice(frame[i].primary) = frame[i].primary
    /\ ox.pc # "idle" /\ ox.option \in OxfordAliases
          => OxfordTransformVoice(ox.voice) = ox.voice

\* a run whose option was an alias, not a code, and was mapped to a code
C9_Witness ==
    \/ /\ ox.pc # "idle"
       /\ ox.option \in OxfordAliases
       /\ ox.voice \in OxfordCodes
       /\ ox.voice # ox.option
    \/ \E i \in Inst :
          /\ frame[i].pc # "idle"
          /\ frame[i].primary \in DOMAIN LOOKUP
          /\ frame[i].primary # frame[i].option

(* C10: an instance's cache changes only by the instance's own successful
   fetch, which adds the fetched query and nothing else; and an instance
   that searches a query its own cache does not hold passes it to net_stream
   whatever the other instance's cache holds. So the same query searched on
   two instances is fetched twice, once per instance. *)
C10_NoSharedCache ==
    [][\A i \in Inst :
          /\ cache'[i] # cache[i]
                => \E k \in DOMAIN NewCalls(i) :
                      LET c == NewCalls(i)[k]
                      IN  /\ c.op = "net_stream" /\ c.ok
                          /\ c.arg \notin DOMAIN cache[i]
                          /\ DOMAIN cache'[i] = DOMAIN cache[i] \cup {c.arg}
                          /\ \A q \in DOMAIN cache[i] : cache'[i][q] = cache[i][q]
          /\ \A k \in DOMAIN NewCalls(i) :
                IsSearch(NewCalls(i)[k]) /\ NewCalls(i)[k].arg \notin DOMAIN cache[i]
                    => Fetches(i, NewCalls(i)[k].arg)
          /\ DOMAIN cache'[i] \subseteq fetched'[i]]_vars

\* both instances, each in a run() of its own, have fetched the same query
\* and each holds its own entry for it
C10_Witness ==
    \E q \in fetched["w1"] \cap fetched["w2"] :
        /\ q \in DOMAIN cache["w1"] /\ q \in DOMAIN cache["w2"]
        /\ cache["w1"][q] # cache["w2"][q]
        /\ frame["w1"].pc # "idle" /\ frame["w2"].pc # "idle"

\* the calls of the download/transcode stage
StageOps == {"path_temp", "net_dump", "cli_transcode", "path_unlink"}

(* C11: when every query of the strategy list has been searched and none
   yielded a filename, the run has ended by raising the not-found error; it
   has allocated no temporary path and made no download or transcode call,
   the file system is as it was; and the message is the phrase message when
   the quote-stripped text contains a space, the word message when it
   contains none. *)
C11_NotFoundBeforeDownload ==
    \A i \in Inst :
        LET f == frame[i]
            S == Searches(i)
            exhausted ==
                /\ f.pc # "idle"
                /\ ~(Len(f.input) > TextLimit)
                /\ f.primary \in DOMAIN LOOKUP
                /\ Len(S) = Len(StrategyList(f.text, f.primary))
                /\ \A k \in DOMAIN S : S[k].ok /\ S[k].value = None
            noStage == \A k \in DOMAIN calls[i] : calls[i][k].op \notin StageOps
            hasSpace == \E j \in 1..Len(f.text) : CharAt(f.text, j) = " "
        IN  /\ exhausted
                => /\ f.pc = "raised"
                   /\ f.exc = IF hasSpace THEN ErrPhrase ELSE ErrWord
                   /\ ErrPhrase # ErrWord
                   /\ noStage
                   /\ f.output_wav = Unbound
                   /\ FileAt(files, Dest(i)) = before[i]
            /\ f.exc \in {ErrPhrase, ErrWord} => noStage /\ exhausted

\* a phrase for which the five queries of "pt" all found nothing
C11_Witness ==
    \E i \in Inst :
        /\ frame[i].pc = "raised"
        /\ frame[i].exc = ErrPhrase
        /\ frame[i].text = "a b"
        /\ Len(Searches(i)) = Len(LOOKUP["pt"].prefixes) + 2

\* the positions <<tag, attribute>> of the audio source markers of a page
Markers(page) ==
    {m \in (DOMAIN page) \X (1..3) :
        m[2] \in DOMAIN page[m[1]] /\ page[m[1]][m[2]][1] = "data-src-mp3"}

\* the value of the first marker of a page that has one
FirstMarker(page) ==
    LET m == CHOOSE m \in Markers(page) :
                \A o \in Markers(page) :
                    m[1] < o[1] \/ (m[1] = o[1] /\ m[2] <= o[2])
    IN  page[m[1]][m[2]][2]

IsDownload(c) == c.op = "net_download"

(* C12: once Oxford.run has fetched its dictionary page: if no start tag of
   the page has a data-src-mp3 attribute, the run has raised the not-found
   error, whose message ends with the URL that was fetched, and has made no
   download call; if the page has such an attribute, the run does not raise
   the not-found error, it makes one download call and no more, and that
   call is for the value of the first such attribute of the page. *)
C12_NoMarkerNotFound ==
    LET C == calls[OxfordProc]
        D == SelectSeq(C, IsDownload)
        url == C[1].arg
    IN  ox.pc # "idle" /\ C # <<>> /\ C[1].ok
        => /\ C[1].op = "net_stream" /\ url = ox.dict_url
           /\ Markers(ox.page) = {}
                 => /\ ox.pc = "raised"
                    /\ Len(ox.exc) > Len(url)
                    /\ SubSeq(ox.exc, 1, Len(ErrSoundNotFound)) = ErrSoundNotFound
                    /\ SubSeq(ox.exc, Len(ox.exc) - Len(url) + 1, Len(ox.exc)) = url
                    /\ D = <<>> /\ Len(C) = 1
           /\ Markers(ox.page) # {}
                 => /\ ox.exc \in {None, RetrievalError}
                    /\ Len(D) <= 1
                    /\ ox.pc = "net_download" <=> D = <<>>
                    /\ \A k \in DOMAIN D : D[k].arg = FirstMarker(ox.page)

\* the page offers two audio sources and the first of them was downloaded
C12_Witness ==
    /\ ox.pc = "returned"
    /\ Markers(ox.page) = {<<1, 1>>, <<2, 1>>}
    /\ Last(calls[OxfordProc]).op = "net_download"
    /\ Last(calls[OxfordProc]).arg = U2

IsFetch(c) == c.op = "net_stream"

(* C13: once a run() of an instance has ended with the not-found error for a
   text and voice, every later run() of the instance with the same text and
   voice makes no net_stream call, goes through the searches only, starts no
   download, and ends by raising the same not-found error after searching
   every query of the strategy list. *)
C13_NegativeCaching ==
    \A i \in Inst : \A r \in notfound[i] :
        LET f == frame[i]
        IN  f.pc # "idle" /\ f.input = r[1] /\ f.option = r[2]
            => /\ SelectSeq(calls[i], IsFetch) = <<>>
               /\ \A q \in DOMAIN StrategyList(f.text, f.primary) :
                     LET query == StrategyList(f.text, f.primary)[q]
                     IN  query \in DOMAIN cache[i] /\ cache[i][query] = None
               /\ f.pc \in {"tight", "loose", "whole", "raised"}
               /\ f.exc \in {None, r[3]}
               /\ f.output_wav = Unbound
               /\ f.pc = "raised"
                     => /\ f.exc = r[3]
                        /\ Len(Searches(i)) = Len(StrategyList(f.text, f.primary))

\* a second run() for the same word has raised not-found from the cache alone
C13_Witness ==
    \E i \in Inst :
        /\ frame[i].pc = "raised"
        /\ <<frame[i].input, frame[i].option, frame[i].exc>> \in notfound[i]
        /\ Len(Searches(i)) = Len(StrategyList(frame[i].text, frame[i].primary))
        /\ Len(calls[i]) = Len(Searches(i))

\* the fetch, download and transcode calls
StepOps == {"net_stream", "net_dump", "net_download", "cli_transcode"}

\* position and pending exception of the run() of provider p
PcOf(p) == IF p = OxfordProc THEN ox.pc ELSE frame[p].pc
ExcOf(p) == IF p = OxfordProc THEN ox.exc ELSE frame[p].exc

(* C14: in a run() of Wiki or Oxford, a fetch, download or transcode call
   that failed is the last such call of the run: no query, download or
   transcode follows it; the run holds an error from then on, is left only
   with the removal of its temporary file to do, and ends by raising, never
   by returning. *)
C14_NoRetryNoSwallow ==
    /\ [](\A p \in Procs : \A k \in DOMAIN calls[p] :
            calls[p][k].op \in StepOps /\ ~calls[p][k].ok
                => /\ \A j \in DOMAIN calls[p] :
                         j > k => calls[p][j].op \notin StepOps
                   /\ ExcOf(p) \in {RetrievalError, TranscodeError}
                   /\ PcOf(p) \in {"path_unlink", "raised"})
    /\ [][\A i \in Inst :
            frame[i].pc = "path_unlink" /\ frame[i].exc # None
                /\ frame'[i] # frame[i]
                => frame'[i].pc = "raised" /\ frame'[i].exc = frame[i].exc]_vars

\* the first tight query of a run() for "pt" failed: the run has raised with
\* four queries of its strategy list untried
C14_Witness ==
    \E i \in Inst :
        /\ frame[i].pc = "raised"
        /\ frame[i].exc = RetrievalError
        /\ frame[i].primary = "pt"
        /\ Len(Searches(i)) = 1
        /\ ~calls[i][1].ok /\ calls[i][1].op = "net_stream"

\* the step makes, for provider p, a call of op that returns
Returns(p, op) ==
    \E k \in DOMAIN NewCalls(p) : NewCalls(p)[k].op = op /\ NewCalls(p)[k].ok

(* C15: a Wiki.run that has returned made, after its searches, exactly the
   calls path_temp, net_dump, cli_transcode, path_unlink, in this order, all
   of which returned; its last search returned the filename that was
   downloaded; the download went to the temporary path and the transcode to
   the destination path; the temporary path is gone and the destination
   exists. An Oxford.run that has returned made a page fetch and then one
   download, to the destination, which holds audio that met the
   requirements. And the destination path is written by no step but the
   transcode of a Wiki.run that holds a filename, or the download of an
   Oxford.run that holds an audio source; the Wiki download leaves it alone. *)
C15_ReturnedIsResolved ==
    /\ [](\A i \in Inst :
            frame[i].pc = "returned"
                => LET f == frame[i]
                       C == calls[i]
                       n == Len(Searches(i))
                   IN  /\ n > 0 /\ Len(C) >= n + 4
                       /\ \A k \in 1..(Len(C) - 4) :
                             C[k].op \in {"search", "net_stream"} /\ C[k].ok
                       /\ C[Len(C) - 4].op = "search"
                       /\ C[Len(C) - 4].value = f.filename
                       /\ f.filename \notin {None, ""}
                       /\ C[Len(C) - 3].op = "path_temp"
                       /\ C[Len(C) - 3].arg = f.output_wav
                       /\ C[Len(C) - 2].op = "net_dump" /\ C[Len(C) - 2].ok
                       /\ C[Len(C) - 2].arg = DumpUrl(f.filename)
                       /\ C[Len(C) - 1].op = "cli_transcode" /\ C[Len(C) - 1].ok
                       /\ C[Len(C) - 1].arg = Dest(i) /\ C[Len(C) - 1].passed
                       /\ C[Len(C)].op = "path_unlink"
                       /\ C[Len(C)].arg = f.output_wav
                       /\ f.output_wav \notin DOMAIN files
                       /\ Dest(i) \in DOMAIN files
                       /\ f.exc = None)
    /\ [](ox.pc = "returned"
            => LET C == calls[OxfordProc]
               IN  /\ Len(C) = 2
                   /\ C[1].op = "net_stream" /\ C[1].ok
                   /\ C[2].op = "net_download" /\ C[2].ok
                   /\ ox.sounds # <<>> /\ C[2].arg = ox.sounds[1]
                   /\ FileAt(files, Dest(OxfordProc)).mime = "audio/mpeg"
                   /\ FileAt(files, Dest(OxfordProc)).size >= OxfordAudioMinSize
                   /\ ox.exc = None)
    /\ [][/\ \A i \in Inst :
               /\ FileAt(files', Dest(i)) # FileAt(files, Dest(i))
                     => /\ frame[i].pc = "cli_transcode"
                        /\ frame[i].filename \notin {None, ""}
                        /\ Returns(i, "cli_transcode")
               /\ Returns(i, "net_dump")
                     => /\ frame[i].output_wav \in DOMAIN files'
                        /\ frame[i].output_wav # Dest(i)
                        /\ FileAt(files', Dest(i)) = FileAt(files, Dest(i))
               /\ Returns(i, "cli_transcode") => Dest(i) \in DOMAIN files'
          /\ FileAt(files', Dest(OxfordProc)) # FileAt(files, Dest(OxfordProc))
               => ox.pc = "net_download" /\ ox.sounds # <<>>]_vars

\* a Wiki.run that has returned after a fallback query found its file
C15_Witness ==
    \E i \in Inst :
        /\ frame[i].pc = "returned"
        /\ Len(Searches(i)) > 1
        /\ Dest(i) \in DOMAIN files

(* C16, as stated: recordOSXsayTTS runs its commands in the order say, lame,
   rm; and whenever it has ended, by returning or by an error that
   propagates, whether lame succeeded or failed, the intermediate aiff file
   does not exist. *)
C16_AiffDeletedOnEveryExit ==
    /\ say.trace \in {<<>>, <<"say">>, <<"say", "lame">>, <<"say", "lame", "rm">>}
    /\ say.pc = "returned" => say.trace = <<"say", "lame", "rm">>
    /\ Ended(say.pc) => say.filename_aiff \notin DOMAIN files

(* C17: a step in which net_stream fails for a query leaves the cache of the
   instance as it was, with no entry for the query; a cache gets a new entry
   only in a step whose net_stream call for that very query returned, and one
   entry at most; an entry once stored is never changed or removed; and a
   search of a query without entry passes it to net_stream, also when the
   instance has fetched it before. *)
C17_FailedFetchNotCached ==
    [][\A i \in Inst :
          /\ \A k \in DOMAIN NewCalls(i) :
                NewCalls(i)[k].op = "net_stream" /\ ~NewCalls(i)[k].ok
                    => /\ cache'[i] = cache[i]
                       /\ NewCalls(i)[k].arg \notin DOMAIN cache'[i]
          /\ \A q \in DOMAIN cache'[i] \ DOMAIN cache[i] :
                /\ DOMAIN cache'[i] = DOMAIN cache[i] \cup {q}
                /\ \E k \in DOMAIN NewCalls(i) :
                      /\ NewCalls(i)[k].op = "net_stream"
                      /\ NewCalls(i)[k].ok
                      /\ NewCalls(i)[k].arg = q
                      /\ NewCalls(i)[k].mime = "text/html"
          /\ \A q \in DOMAIN cache[i] :
                q \in DOMAIN cache'[i] /\ cache'[i][q] = cache[i][q]
          /\ \A k \in DOMAIN NewCalls(i) :
                /\ IsSearch(NewCalls(i)[k])
                /\ NewCalls(i)[k].arg \in fetched[i] \ DOMAIN cache[i]
                => Fetches(i, NewCalls(i)[k].arg)]_vars

\* a run() whose tight query was answered from the cache, so that an earlier
\* run() went on to the loose query, and which passes the loose query to
\* net_stream: the earlier fetch of it failed and left no entry
C17_Witness ==
    \E i \in Inst :
        /\ frame[i].primary = "de"
        /\ Len(calls[i]) >= 2
        /\ calls[i][1].op = "search" /\ calls[i][1].value = None
        /\ calls[i][2].op = "net_stream"
        /\ calls[i][2].arg \in fetched[i]

=============================================================================
